---- MODULE Spec2Model ----
(***************************************************************************)
(* Model of cwc.protocol.makeblock.mbot.Api                                *)
(* (src/src/protocol/robots/makeblock/mbot/api.js): the connection         *)
(* lifecycle, command execution, the receive handler with its change       *)
(* detection cache, and the collaborators the engine calls (transport      *)
(* device, command handler, monitoring, stream reader output).             *)
(*                                                                         *)
(* JavaScript runs every handler to completion, so each exported method    *)
(* and each callback is one atomic action.  What a handler does to the     *)
(* outside (buffers handed to device.send, listeners registered, events    *)
(* dispatched) is appended, in program order, to `trace`, which holds the  *)
(* effects of the most recent operation only.                              *)
(***************************************************************************)
EXTENDS Integers, Sequences, FiniteSets, TLC

VARIABLES
  device,            \* this.device: NoDevice (null) or a device
  prepared,          \* this.prepared
  sensorDataCache_,  \* this.sensorDataCache_: a function on the keys that are set
  started,           \* this.monitoring: is the monitoring loop running
  listeners,         \* this.events_: per device, listeners registered on its ON_RECEIVE
  linkUp,            \* per device, device.isConnected()
  last,              \* the most recent operation and its arguments
  ret,               \* what the most recent operation returned ("throw": it threw)
  trace,             \* the effects of the most recent operation, in program order
  recent,            \* the frame handled last since the cache was last cleared
  scen,              \* tracker of "frame seen, disconnect(), connect(linked device)"
  readerBuffer,      \* this.streamReader_: the bytes it retains between two reads
  wire,              \* the frames a device wrote and the bytes of them still to deliver
  framesOut          \* every frame the stream reader has returned so far, in order

vars == <<device, prepared, sensorDataCache_, started, listeners, linkUp,
          last, ret, trace, recent, scen, readerBuffer, wire, framesOut>>

(***************************************************************************)
(* Values                                                                  *)
(***************************************************************************)
Devices == {"d1", "d2"}
NoDevice == "null"

\* cwc.protocol.makeblock.mbot.CallbackType, by name.
VERSION == "VERSION"
ULTRASONIC == "ULTRASONIC"
LINEFOLLOWER == "LINEFOLLOWER"
LIGHTSENSOR == "LIGHTSENSOR"
INNER_BUTTON == "INNER_BUTTON"
UNKNOWN_INDEX == "UNKNOWN_INDEX"

SensorTypes == {ULTRASONIC, LINEFOLLOWER, LIGHTSENSOR, INNER_BUTTON}
SizedTypes == {ULTRASONIC, LINEFOLLOWER, LIGHTSENSOR}
IndexTypes == SensorTypes \cup {VERSION, UNKNOWN_INDEX}

\* opt_data_size handed to handleSensorData_ for the three sized sensor types.
SensorDataSize == 4
\* A frame longer than this is handed to handleData_.
EmptyFrameLength == 4
\* Line follower threshold.
LineThreshold == 64

\* Payloads (the bytes of a frame from offset 4 on) the device delivers.
Payloads == { <<>>, <<70>>, <<0, 0, 70>>, <<0, 0, 70, 50>>, <<0, 0, 72, 67>> }

\* A frame as the stream reader returns it: header 0xff 0x55, then the index
\* type at offset 2, the data type at offset 3, then the payload.
MkFrame(idx, p) == <<255, 85, idx, 1>> \o p
Frames == { MkFrame(idx, p) : idx \in IndexTypes, p \in Payloads }

\* The frames the lifecycle specification lets a device deliver.
LifecycleFrames ==
  { MkFrame(ULTRASONIC, <<0, 0, 72, 67>>), MkFrame(ULTRASONIC, <<0, 0, 70, 50>>),
    MkFrame(INNER_BUTTON, <<70>>) }

\* How many frames one chunk resolves to, at most.
MaxChunkFrames == 2

RECURSIVE SeqsUpTo(_, _)
SeqsUpTo(S, n) ==
  IF n = 0 THEN { <<>> }
  ELSE LET shorter == SeqsUpTo(S, n - 1)
       IN  shorter \cup { Append(s, x) : s \in { t \in shorter : Len(t) = n - 1 }, x \in S }

\* What the stream reader returns for a chunk: no frame, or some frames.
Chunks == SeqsUpTo(LifecycleFrames, MaxChunkFrames)
SingleFrameChunks == { <<f>> : f \in Frames }

\* The frames of the chunk specification: a frame of an index type the switch
\* of handleData_ does not know, one payload under two sensor index types, and
\* a frame of four bytes.
ChunkFrames ==
  { MkFrame(UNKNOWN_INDEX, <<0, 0, 72, 67>>), MkFrame(ULTRASONIC, <<0, 0, 72, 67>>),
    MkFrame(LIGHTSENSOR, <<0, 0, 72, 67>>), MkFrame(INNER_BUTTON, <<>>) }
FrameChunks == SeqsUpTo(ChunkFrames, MaxChunkFrames)

\* The line follower payloads of the line follower specification: bytes 2
\* and 3 on both sides of the threshold and on it, and one payload too short
\* and one longer than the four bytes asked for.
LinePayloads ==
  { <<0, 0, b2, b3>> : b2 \in {63, 64, 70}, b3 \in {50, 63, 64} }
    \cup { <<0, 0, 70>>, <<1, 2, 64, 63, 9>> }
LineFrames == { MkFrame(LINEFOLLOWER, p) : p \in LinePayloads }

\* The frames a device writes in the framer specification, byte by byte: an
\* OK packet of four bytes, a frame of five, and a frame whose payload holds
\* the bytes of header and footer, never two of them in their order.
WireFrames ==
  { <<255, 85, 13, 10>>, <<255, 85, 7, 13, 10>>,
    <<255, 85, 3, 1, 13, 255, 10, 85, 7, 13, 10>> }

\* How many frames a device writes, at most.
MaxWireFrames == 2

RECURSIVE Concat(_)
Concat(frames) == IF frames = <<>> THEN <<>> ELSE Head(frames) \o Concat(Tail(frames))

\* What a device wrote, all of it still to deliver.
Wires ==
  { [frames |-> fs, rest |-> Concat(fs)] : fs \in SeqsUpTo(WireFrames, MaxWireFrames) }

\* The four byte payloads the codec specification decodes: zero, the
\* smallest exponents, values around 1 and between 32 and 400 of both signs,
\* with low bytes that make the rounding to two decimals matter.
CodecBytes ==
  { <<b0, b1, b2, b3>> : b0 \in {0, 1}, b1 \in {0, 255}, b2 \in {0, 72, 128, 200},
                         b3 \in {0, 63, 66, 67, 191, 195} }

(***************************************************************************)
(* Float/byte codec (api.js 217-260).  Numbers are JavaScript numbers; the *)
(* shifts work on 32 bit signed integers.  A decoded value is kept exactly *)
(* as [hundredths, shift]: the number hundredths * 2^shift / 100.          *)
(***************************************************************************)
RECURSIVE Pow2(_)
Pow2(n) == IF n = 0 THEN 1 ELSE 2 * Pow2(n - 1)

\* b << 24 on a byte: the result wraps to a signed 32 bit integer.
ShiftLeft24(b) == IF b >= 128 THEN (b - 256) * Pow2(24) ELSE b * Pow2(24)

\* ( b1 << 24 ) + ( b2 << 16 ) + ( b3 << 8 ) + b4
fourBytesToInt_(b1, b2, b3, b4) ==
  ShiftLeft24(b1) + b2 * Pow2(16) + b3 * Pow2(8) + b4

\* The low 31 bits of a signed 32 bit integer.
Low31(num) == IF num < 0 THEN (num + 2147483647) + 1 ELSE num

\* sign * mantissa * 2^(exponent - 150), exactly: [sign, mantissa, exponent].
intBitsToFloat_(num) ==
  LET sign == IF num >= 0 THEN 1 ELSE -1          \* ( num >> 31 ) == 0 ? 1 : -1
      exponent == Low31(num) \div Pow2(23)        \* ( num >> 23 ) & 0xff
      fraction == Low31(num) % Pow2(23)           \* num & 0x7fffff
      mantissa == IF exponent = 0 THEN fraction * 2 ELSE fraction + Pow2(23)
  IN  [sign |-> sign, mantissa |-> mantissa, exponent |-> exponent]

\* parseFloat(x.toFixed(2)) of x = sign * mantissa * 2^(exponent - 150): the
\* nearest multiple of 0.01, a tie going away from zero.
toFixed2(f) ==
  LET s == 150 - f.exponent
      scaled == f.mantissa * 100
  IN  IF s < 0 THEN [hundredths |-> f.sign * scaled, shift |-> 0 - s]
      ELSE IF s = 0 THEN [hundredths |-> f.sign * scaled, shift |-> 0]
      ELSE IF s >= 32 THEN [hundredths |-> 0, shift |-> 0]
      ELSE LET half == Pow2(s - 1)
               q == IF s = 31 THEN 0 ELSE scaled \div (2 * half)
               r == IF s = 31 THEN scaled ELSE scaled % (2 * half)
           IN  [hundredths |-> f.sign * (IF r >= half THEN q + 1 ELSE q), shift |-> 0]

\* parseFloatBytes_ taking dataBytes[0] as the most significant byte.
parseFloatBytes_BigEndian(dataBytes) ==
  toFixed2(intBitsToFloat_(
    fourBytesToInt_(dataBytes[1], dataBytes[2], dataBytes[3], dataBytes[4])))

\* dataBytes[i] of JavaScript is dataBytes[i + 1] here.
parseFloatBytes_(dataBytes) ==
  toFixed2(intBitsToFloat_(
    fourBytesToInt_(dataBytes[4], dataBytes[3], dataBytes[2], dataBytes[1])))

(***************************************************************************)
(* Collaborators whose source is not part of the modelled file.            *)
(***************************************************************************)
\* cwc.protocol.makeblock.mbot.Handler: the command table.
Commands == {"playTone", "getVersion", "stop"}
\* Names that are no command but that this.handler[name] still resolves: the
\* members every object inherits (toString, valueOf, ...).
InheritedNames == {"toString"}
\* Names this.handler[name] resolves to undefined.
UnresolvedNames == {"bogus"}

\* The parameter objects callers pass.
NoData == <<>>
Tone(frequency, duration) == <<frequency, duration>>

\* handler[command](data): the buffer of a command of the table.
HandlerBuffer(command, data) == [command |-> command, data |-> data]
\* handler.toString(data): a string, no buffer.
ObjectString == [string |-> "[object Object]"]

\* cwc.utils.ByteTools.isArrayBufferEqual: bytewise equality.
isArrayBufferEqual(a, b) ==
  /\ Len(a) = Len(b)
  /\ \A i \in 1..Len(a) : a[i] = b[i]

\* The poll commands the monitoring timer issues.
PollCommands ==
  << "getUltrasonicSensor", "getLinefollowerSensor", "getLightSensor", "getButton" >>

(***************************************************************************)
(* cwc.utils.StreamReader as the constructor configures it (api.js 68-71). *)
(* Its source is not part of the modelled file; readByHeaderAndFooter is   *)
(* the framer of the specification: find the header, find the footer that  *)
(* ends a frame of at least the minimum size, cut the frame, repeat, keep   *)
(* the rest.  The minimum size counts the whole frame, header and footer   *)
(* included: handleOnReceive_ expects frames of four bytes, 0xff 0x55 0x0d  *)
(* 0x0a, among those returned (api.js 276-277).                            *)
(***************************************************************************)
Headers == <<255, 85>>     \* .setHeaders([0xff, 0x55])
Footer == <<13, 10>>       \* .setFooter([0x0d, 0x0a])
MinimumSize == 4           \* .setMinimumSize(4)

\* Does pat lie in buf at position i.
MatchesAt(buf, pat, i) ==
  /\ i >= 1
  /\ i + Len(pat) - 1 <= Len(buf)
  /\ \A j \in 1..Len(pat) : buf[i + j - 1] = pat[j]

\* The first position from `from` on where pat lies in buf; 0 when none.
FindFrom(buf, pat, from) ==
  LET hits == { i \in from..Len(buf) : MatchesAt(buf, pat, i) }
  IN  IF hits = {} THEN 0 ELSE CHOOSE i \in hits : \A j \in hits : i <= j

\* The framer forgetting the bytes of a frame whose footer has not arrived.
RECURSIVE ReadFrames_DropsPartial(_, _)
ReadFrames_DropsPartial(buf, frames) ==
  LET h == FindFrom(buf, Headers, 1)
      f == FindFrom(buf, Footer, h + MinimumSize - Len(Footer))
  IN  IF h = 0 \/ f = 0 THEN [frames |-> frames, buffer |-> <<>>]
      ELSE ReadFrames_DropsPartial(SubSeq(buf, f + Len(Footer), Len(buf)),
                                   Append(frames, SubSeq(buf, h, f + Len(Footer) - 1)))

\* The frames cut from buf, after those already cut, and the bytes kept.
RECURSIVE ReadFrames(_, _)
ReadFrames(buf, frames) ==
  LET h == FindFrom(buf, Headers, 1)
      f == FindFrom(buf, Footer, h + MinimumSize - Len(Footer))
  IN  IF h = 0 THEN [frames |-> frames, buffer |-> buf]
      ELSE IF f = 0 THEN [frames |-> frames, buffer |-> SubSeq(buf, h, Len(buf))]
      ELSE ReadFrames(SubSeq(buf, f + Len(Footer), Len(buf)),
                      Append(frames, SubSeq(buf, h, f + Len(Footer) - 1)))

\* streamReader_.readByHeaderAndFooter(data) with kept the bytes retained.
readByHeaderAndFooter(kept, data) == ReadFrames(kept \o data, <<>>)

(***************************************************************************)
(* Effects, as they appear in trace.                                       *)
(***************************************************************************)
EffListen(d) == <<"listen", d>>
EffSend(d, buffer) == <<"send", d, buffer>>
EffDeviceDisconnect(d) == <<"device.disconnect", d>>
EffDeviceReset(d) == <<"device.reset", d>>
EffEventsClear == <<"events.clear">>
EffMonitorStart == <<"monitoring.start">>
EffMonitorStop == <<"monitoring.stop">>
EffMonitorCleanUp == <<"monitoring.cleanUp">>
EffPrepared == <<"prepared">>
EffCacheWrite(idx, data) == <<"cache", idx, data>>
EffEvent(idx, name, value) == <<"event", idx, name, value>>
EffReturn(value) == <<"return", value>>

IsSend(e) == e[1] = "send"
IsEvent(e) == e[1] = "event"
IsCacheWrite(e) == e[1] = "cache"

CountEvents(tr) == Cardinality({ i \in 1..Len(tr) : IsEvent(tr[i]) })
CountSends(tr) == Cardinality({ i \in 1..Len(tr) : IsSend(tr[i]) })

(***************************************************************************)
(* The engine.  A method is an operator from the object's state (a record  *)
(* of the fields, the collaborators' state, the effects so far and whether *)
(* an exception is in flight) to the state it leaves.                      *)
(***************************************************************************)
EmptyCache == [k \in {} |-> <<>>]

This ==
  [ device |-> device, prepared |-> prepared, cache |-> sensorDataCache_,
    started |-> started, listeners |-> listeners, linkUp |-> linkUp,
    trace |-> <<>>, thrown |-> FALSE ]

Effect(st, e) == [st EXCEPT !.trace = Append(@, e)]

\* Api.prototype.isConnected
isConnected(st) == st.device # NoDevice /\ st.linkUp[st.device]

\* Api.prototype.send: the buffer goes to device.send when a device is set.
send(st, buffer) ==
  IF st.device # NoDevice THEN Effect(st, EffSend(st.device, buffer)) ELSE st

\* this.handler[command](data): the value, or a throw when the name resolves
\* to undefined (calling undefined is a TypeError).
HandlerCall(command, data) ==
  IF command \in Commands THEN [thrown |-> FALSE, value |-> HandlerBuffer(command, data)]
  ELSE IF command \in InheritedNames THEN [thrown |-> FALSE, value |-> ObjectString]
  ELSE [thrown |-> TRUE, value |-> ObjectString]

\* Api.prototype.exec: the argument of send is evaluated first, so a throw
\* leaves before send is entered.
exec(st, command, data) ==
  IF HandlerCall(command, data).thrown
  THEN [st EXCEPT !.thrown = TRUE]
  ELSE send(st, HandlerCall(command, data).value)

\* Api.prototype.getBuffer: the same call, nothing is sent.
getBuffer(st, command, data) ==
  IF HandlerCall(command, data).thrown THEN [st EXCEPT !.thrown = TRUE] ELSE st

\* Monitoring.start / stop / cleanUp.
monitoringStart(st) == Effect([st EXCEPT !.started = TRUE], EffMonitorStart)
monitoringStop(st) == Effect([st EXCEPT !.started = FALSE], EffMonitorStop)
monitoringCleanUp(st) == Effect([st EXCEPT !.started = FALSE], EffMonitorCleanUp)

\* Api.prototype.monitor
monitor(st, enable) ==
  IF enable /\ isConnected(st) THEN monitoringStart(st)
  ELSE IF ~enable THEN monitoringStop(st)
  ELSE st

\* this.events_.listen(this.device.getEventHandler(), ON_RECEIVE, ...)
eventsListen(st) ==
  Effect([st EXCEPT !.listeners[st.device] = @ + 1], EffListen(st.device))

\* this.events_.clear()
eventsClear(st) ==
  Effect([st EXCEPT !.listeners = [d \in Devices |-> 0]], EffEventsClear)

\* prepare starting the monitoring before it sends the three commands.
prepare_MonitorFirst(st) ==
  LET s1 == eventsListen(st)
      s2 == monitor(s1, TRUE)
      s3 == exec(s2, "playTone", Tone(524, 240))
      s4 == exec(s3, "playTone", Tone(584, 240))
      s5 == exec(s4, "getVersion", NoData)
  IN  Effect([s5 EXCEPT !.prepared = TRUE], EffPrepared)

\* Api.prototype.prepare
prepare(st) ==
  LET s1 == eventsListen(st)
      s2 == exec(s1, "playTone", Tone(524, 240))
      s3 == exec(s2, "playTone", Tone(584, 240))
      s4 == exec(s3, "getVersion", NoData)
      s5 == monitor(s4, TRUE)
  IN  Effect([s5 EXCEPT !.prepared = TRUE], EffPrepared)

\* connect without the test of this.prepared.
connect_AlwaysPrepare(st, dev) ==
  IF dev = NoDevice THEN [st |-> st, ret |-> FALSE]
  ELSE IF st.linkUp[dev]
       THEN [st |-> prepare([st EXCEPT !.device = dev]), ret |-> TRUE]
       ELSE [st |-> st, ret |-> TRUE]

\* Api.prototype.connect: the state it leaves, and what it returns.
connect(st, dev) ==
  IF dev = NoDevice THEN [st |-> st, ret |-> FALSE]
  ELSE IF ~st.prepared /\ st.linkUp[dev]
       THEN [st |-> prepare([st EXCEPT !.device = dev]), ret |-> TRUE]
       ELSE [st |-> st, ret |-> TRUE]

\* device.disconnect(): the link goes down.
deviceDisconnect(st) ==
  Effect([st EXCEPT !.linkUp[st.device] = FALSE], EffDeviceDisconnect(st.device))

\* device.reset(): the link is kept.
deviceReset(st) == Effect(st, EffDeviceReset(st.device))

\* Api.prototype.reset
reset(st) ==
  LET s1 == [st EXCEPT !.cache = EmptyCache]
  IN  IF s1.device # NoDevice THEN deviceReset(exec(s1, "stop", NoData)) ELSE s1

\* cleanUp without this.events_.clear().
cleanUp_KeepListeners(st) == monitoringCleanUp(reset(st))

\* cleanUp without this.monitoring.cleanUp().
cleanUp_NoMonitoring(st) == eventsClear(reset(st))

\* Api.prototype.cleanUp
cleanUp(st) == monitoringCleanUp(eventsClear(reset(st)))

\* Api.prototype.disconnect
disconnect(st) ==
  cleanUp(IF st.device # NoDevice THEN deviceDisconnect(st) ELSE st)

(***************************************************************************)
(* Receiving (api.js 263-369).                                             *)
(***************************************************************************)
\* dataBuffer.slice(4, dataBuffer.length)
PayloadOf(dataBuffer) == SubSeq(dataBuffer, 5, Len(dataBuffer))
IndexTypeOf(dataBuffer) == dataBuffer[3]

\* The events with the two sides of the line follower exchanged.
SensorEvent_SwappedSides(index_type, data) ==
  CASE index_type = INNER_BUTTON ->
         EffEvent(index_type, "ButtonPressed", <<data[1]>>)
    [] index_type = LIGHTSENSOR ->
         EffEvent(index_type, "LightnessSensorValue", <<parseFloatBytes_(data)>>)
    [] index_type = LINEFOLLOWER ->
         EffEvent(index_type, "LinefollowerSensorValue",
                  <<data[3] >= LineThreshold, data[4] >= LineThreshold, data>>)
    [] index_type = ULTRASONIC ->
         EffEvent(index_type, "UltrasonicSensorValue", <<parseFloatBytes_(data)>>)

\* The event a sensor type dispatches for a payload: for the line follower
\* the value is <<left, right, raw>>.
SensorEvent(index_type, data) ==
  CASE index_type = INNER_BUTTON ->
         EffEvent(index_type, "ButtonPressed", <<data[1]>>)
    [] index_type = LIGHTSENSOR ->
         EffEvent(index_type, "LightnessSensorValue", <<parseFloatBytes_(data)>>)
    [] index_type = LINEFOLLOWER ->
         EffEvent(index_type, "LinefollowerSensorValue",
                  <<data[4] >= LineThreshold, data[3] >= LineThreshold, data>>)
    [] index_type = ULTRASONIC ->
         EffEvent(index_type, "UltrasonicSensorValue", <<parseFloatBytes_(data)>>)

\* The comparison against the entries of every index type.
CacheHit_AnyType(cache, index_type, data) ==
  \E k \in DOMAIN cache : isArrayBufferEqual(cache[k], data)

\* Is the payload the one the cache holds for the index type.
CacheHit(cache, index_type, data) ==
  /\ index_type \in DOMAIN cache
  /\ isArrayBufferEqual(cache[index_type], data)

CachePut(cache, index_type, data) ==
  [k \in DOMAIN cache \cup {index_type} |-> IF k = index_type THEN data ELSE cache[k]]

\* handleSensorData_ without the comparison against the cache.
handleSensorData_NoCompare(st, index_type, data, opt_data_size) ==
  IF opt_data_size # 0 /\ Len(data) < opt_data_size THEN st
  ELSE LET s1 == Effect([st EXCEPT !.cache = CachePut(@, index_type, data)],
                        EffCacheWrite(index_type, data))
       IN  Effect(s1, SensorEvent(index_type, data))

\* handleSensorData_ storing the payload before it checks the size.
handleSensorData_StoreFirst(st, index_type, data, opt_data_size) ==
  IF CacheHit(st.cache, index_type, data) THEN st
  ELSE LET s1 == Effect([st EXCEPT !.cache = CachePut(@, index_type, data)],
                        EffCacheWrite(index_type, data))
       IN  IF opt_data_size # 0 /\ Len(data) < opt_data_size THEN s1
           ELSE Effect(s1, SensorEvent(index_type, data))

\* handleSensorData_ dispatching the event before it stores the payload.
handleSensorData_EventFirst(st, index_type, data, opt_data_size) ==
  IF opt_data_size # 0 /\ Len(data) < opt_data_size THEN st
  ELSE IF CacheHit(st.cache, index_type, data) THEN st
  ELSE LET s1 == Effect(st, SensorEvent(index_type, data))
       IN  Effect([s1 EXCEPT !.cache = CachePut(@, index_type, data)],
                  EffCacheWrite(index_type, data))

\* Api.prototype.handleSensorData_; opt_data_size 0 stands for "not given".
handleSensorData_(st, index_type, data, opt_data_size) ==
  IF opt_data_size # 0 /\ Len(data) < opt_data_size THEN st
  ELSE IF CacheHit(st.cache, index_type, data) THEN st
  ELSE LET s1 == Effect([st EXCEPT !.cache = CachePut(@, index_type, data)],
                        EffCacheWrite(index_type, data))
       IN  Effect(s1, SensorEvent(index_type, data))

\* handleData_ with a default branch that drops the cache.
handleData_UnknownClears(st, dataBuffer) ==
  LET indexType == IndexTypeOf(dataBuffer)
      data == PayloadOf(dataBuffer)
  IN  CASE indexType = VERSION -> st
        [] indexType \in SizedTypes ->
             handleSensorData_(st, indexType, data, SensorDataSize)
        [] indexType = INNER_BUTTON -> handleSensorData_(st, indexType, data, 0)
        [] OTHER -> [st EXCEPT !.cache = EmptyCache]

\* Api.prototype.handleData_
handleData_(st, dataBuffer) ==
  LET indexType == IndexTypeOf(dataBuffer)
      data == PayloadOf(dataBuffer)
  IN  CASE indexType = VERSION -> st
        [] indexType \in SizedTypes ->
             handleSensorData_(st, indexType, data, SensorDataSize)
        [] indexType = INNER_BUTTON -> handleSensorData_(st, indexType, data, 0)
        [] OTHER -> st

\* The body of the loop of handleOnReceive_ for one frame.
handleFrame(st, dataBuffer) ==
  IF Len(dataBuffer) > EmptyFrameLength THEN handleData_(st, dataBuffer) ELSE st

\* The loop of handleOnReceive_ running from the last frame to frame i.
RECURSIVE handleFrames_Backwards(_, _, _)
handleFrames_Backwards(st, data, i) ==
  IF i > Len(data) THEN st
  ELSE handleFrame(handleFrames_Backwards(st, data, i + 1), data[i])

\* Api.prototype.handleOnReceive_, from frame i of the frames the stream
\* reader returned for the chunk.
RECURSIVE handleFrames(_, _, _)
handleFrames(st, data, i) ==
  IF i > Len(data) THEN st
  ELSE handleFrames(handleFrame(st, data[i]), data, i + 1)

handleOnReceive_(st, data) ==
  IF Len(data) = 0 THEN st ELSE handleFrames(st, data, 1)

\* The device dispatches ON_RECEIVE: each listener registered on it runs.
RECURSIVE dispatchReceive(_, _, _)
dispatchReceive(st, data, n) ==
  IF n = 0 THEN st ELSE dispatchReceive(handleOnReceive_(st, data), data, n - 1)

\* The monitoring timer fires: the poll commands go out through send.
RECURSIVE pollFrom(_, _)
pollFrom(st, i) ==
  IF i > Len(PollCommands) THEN st
  ELSE pollFrom(send(st, HandlerBuffer(PollCommands[i], NoData)), i + 1)

(***************************************************************************)
(* History: what the properties below need to remember across operations.  *)
(***************************************************************************)
\* Can a frame of this index type and payload reach the cache comparison.
Sufficient(idx, data) ==
  /\ idx \in SensorTypes
  /\ Len(data) >= 1
  /\ idx \in SizedTypes => Len(data) >= SensorDataSize

\* What handling one frame did: its index type and payload, the events it
\* dispatched, whether the cache held its payload before, and whether the
\* cache is another one afterwards.
FrameRecord(st, dataBuffer) ==
  [ idx |-> IndexTypeOf(dataBuffer), data |-> PayloadOf(dataBuffer),
    events |-> CountEvents(handleFrame([st EXCEPT !.trace = <<>>], dataBuffer).trace),
    hit |-> CacheHit(st.cache, IndexTypeOf(dataBuffer), PayloadOf(dataBuffer)),
    stored |-> handleFrame(st, dataBuffer).cache # st.cache ]

RECURSIVE FrameLog(_, _, _)
FrameLog(st, data, i) ==
  IF i > Len(data) THEN <<>>
  ELSE <<FrameRecord(st, data[i])>> \o FrameLog(handleFrame(st, data[i]), data, i + 1)

RECURSIVE ReceiveLog(_, _, _)
ReceiveLog(st, data, n) ==
  IF n = 0 THEN <<>>
  ELSE FrameLog(st, data, 1) \o ReceiveLog(handleOnReceive_(st, data), data, n - 1)

\* The events the first frame of the chunk dispatched, over all listeners.
RECURSIVE FirstFrameEvents(_, _, _)
FirstFrameEvents(st, data, n) ==
  IF n = 0 \/ Len(data) = 0 THEN 0
  ELSE FrameRecord(st, data[1]).events
         + FirstFrameEvents(handleOnReceive_(st, data), data, n - 1)

\* recent after the frames of log were handled: the last frame's record, with
\* what the frame handled right before it did when that frame carried the same
\* index type and payload (repeat).
NoPrev == [repeat |-> FALSE, prevEvents |-> 0, prevHit |-> FALSE]
WithPrev(r, before) ==
  IF before # <<>> /\ before[1].idx = r.idx /\ before[1].data = r.data
  THEN [rec |-> r, repeat |-> TRUE, prevEvents |-> before[1].rec.events,
        prevHit |-> before[1].rec.hit]
  ELSE [rec |-> r] @@ NoPrev

RECURSIVE RecentAfter(_, _, _)
RecentAfter(before, log, i) ==
  IF i > Len(log) THEN before
  ELSE RecentAfter(<<[idx |-> log[i].idx, data |-> log[i].data] @@ WithPrev(log[i], before)>>,
                   log, i + 1)

ScenIdle == [st |-> "idle", frame |-> <<>>, dev |-> NoDevice, same |-> FALSE, events |-> 0]

\* scen after the device d delivered the frames data.
ScenReceive(d, data, firstEvents) ==
  IF /\ scen.st = "reconn" /\ d = scen.dev /\ Len(data) >= 1
     /\ Sufficient(IndexTypeOf(data[1]), PayloadOf(data[1]))
  THEN [ScenIdle EXCEPT !.st = "first",
          !.same = (<<IndexTypeOf(data[1]), PayloadOf(data[1])>> = scen.frame),
          !.events = firstEvents]
  ELSE IF scen.st = "first" THEN ScenIdle ELSE scen

\* scen after disconnect(): it remembers the frame handled last before it.
ScenDisconnect ==
  IF recent # <<>> /\ Sufficient(recent[1].idx, recent[1].data)
  THEN [ScenIdle EXCEPT !.st = "disc", !.frame = <<recent[1].idx, recent[1].data>>]
  ELSE IF scen.st \in {"disc", "reconn"}
       THEN [ScenIdle EXCEPT !.st = "disc", !.frame = scen.frame]
       ELSE ScenIdle

ScenConnect(dev) ==
  IF scen.st = "disc" /\ dev # NoDevice /\ linkUp[dev]
  THEN [scen EXCEPT !.st = "reconn", !.dev = dev]
  ELSE scen

(***************************************************************************)
(* Actions                                                                 *)
(***************************************************************************)
\* The operations below take the chunk as the frames the stream reader resolves
\* it to; the bytes of the reader are the matter of Feed alone.
Commit(st) ==
  /\ device' = st.device
  /\ prepared' = st.prepared
  /\ sensorDataCache_' = st.cache
  /\ started' = st.started
  /\ listeners' = st.listeners
  /\ linkUp' = st.linkUp
  /\ trace' = st.trace
  /\ UNCHANGED <<readerBuffer, wire, framesOut>>

Op(name, arg) == [op |-> name, arg |-> arg]

\* Nothing written by a device is in flight.
NoWire == [frames |-> <<>>, rest |-> <<>>]

InitEngine ==
  /\ device = NoDevice
  /\ prepared = FALSE
  /\ sensorDataCache_ = EmptyCache
  /\ started = FALSE
  /\ listeners = [d \in Devices |-> 0]
  /\ linkUp \in [Devices -> BOOLEAN]
  /\ last = Op("new", <<>>)
  /\ ret = "void"
  /\ trace = <<>>
  /\ recent = <<>>
  /\ scen = ScenIdle
  /\ readerBuffer = <<>>
  /\ framesOut = <<>>

Init == InitEngine /\ wire = NoWire

\* api.connect(dev)
Connect(dev) ==
  LET r == connect(This, dev)
  IN  /\ Commit(r.st)
      /\ last' = Op("connect", <<dev>>)
      /\ ret' = IF r.ret THEN "true" ELSE "false"
      /\ recent' = recent
      /\ scen' = ScenConnect(dev)

\* api.disconnect()
Disconnect ==
  /\ Commit(disconnect(This))
  /\ last' = Op("disconnect", <<>>)
  /\ ret' = "void"
  /\ recent' = <<>>
  /\ scen' = ScenDisconnect

\* api.reset()
Reset ==
  /\ Commit(reset(This))
  /\ last' = Op("reset", <<>>)
  /\ ret' = "void"
  /\ recent' = <<>>
  /\ scen' = scen

\* api.exec(command, data)
Exec(command, data) ==
  LET st == exec(This, command, data)
  IN  /\ Commit(st)
      /\ last' = Op("exec", <<>>)
      /\ ret' = IF st.thrown THEN "throw" ELSE "void"
      /\ UNCHANGED <<recent, scen>>

\* api.getBuffer(command, data)
GetBuffer(command, data) ==
  LET st == getBuffer(This, command, data)
  IN  /\ Commit(st)
      /\ last' = Op("getBuffer", <<>>)
      /\ ret' = IF st.thrown THEN "throw" ELSE "buffer"
      /\ UNCHANGED <<recent, scen>>

\* api.monitor(enable)
Monitor(enable) ==
  /\ Commit(monitor(This, enable))
  /\ last' = Op("monitor", <<>>)
  /\ ret' = "void"
  /\ UNCHANGED <<recent, scen>>

\* The link of a device comes up or goes down, outside the engine.
LinkConnect(d) ==
  /\ ~linkUp[d]
  /\ Commit([This EXCEPT !.linkUp[d] = TRUE])
  /\ last' = Op("link.up", <<>>)
  /\ ret' = "void"
  /\ UNCHANGED <<recent, scen>>

LinkDrop(d) ==
  /\ linkUp[d]
  /\ Commit([This EXCEPT !.linkUp[d] = FALSE])
  /\ last' = Op("link.down", <<>>)
  /\ ret' = "void"
  /\ UNCHANGED <<recent, scen>>

\* Device d delivers a chunk that the stream reader resolves to the frames
\* data; arg is what last keeps of the delivery.
Receive(d, data, arg) ==
  /\ linkUp[d]
  /\ Commit(dispatchReceive(This, data, listeners[d]))
  /\ last' = Op("receive", arg)
  /\ ret' = "void"
  /\ recent' = RecentAfter(recent, ReceiveLog(This, data, listeners[d]), 1)
  /\ scen' = ScenReceive(d, data, FirstFrameEvents(This, data, listeners[d]))

DeviceReceive(d, data) == Receive(d, data, <<>>)

\* The same delivery, with the device and the frames kept in last.
ReceiveChunk(d, data) == Receive(d, data, <<d, data>>)

\* The monitoring timer fires.
MonitoringTick ==
  /\ started
  /\ Commit(pollFrom(This, 1))
  /\ last' = Op("tick", <<>>)
  /\ ret' = "void"
  /\ UNCHANGED <<recent, scen>>

\* this.parseFloatBytes_(dataBytes): the integer it assembles, the float it
\* decodes and the number it returns.
ParseFloatBytes(dataBytes) ==
  LET intValue == fourBytesToInt_(dataBytes[4], dataBytes[3], dataBytes[2], dataBytes[1])
  IN  /\ Commit(Effect(This, EffReturn([ intValue |-> intValue,
                                          float |-> intBitsToFloat_(intValue),
                                          result |-> parseFloatBytes_(dataBytes) ])))
      /\ last' = Op("parseFloatBytes_", <<dataBytes>>)
      /\ ret' = "number"
      /\ UNCHANGED <<recent, scen>>

\* The device delivers the next k bytes of what it wrote as one chunk, and
\* handleOnReceive_ hands them to the stream reader (api.js 269).
ReadChunk(k) ==
  LET r == readByHeaderAndFooter(readerBuffer, SubSeq(wire.rest, 1, k))
  IN  /\ k <= Len(wire.rest)
      /\ readerBuffer' = r.buffer
      /\ framesOut' = framesOut \o r.frames
      /\ wire' = [wire EXCEPT !.rest = SubSeq(@, k + 1, Len(@))]
      /\ last' = Op("readByHeaderAndFooter", <<k>>)
      /\ ret' = "frames"
      /\ trace' = <<>>
      /\ UNCHANGED <<device, prepared, sensorDataCache_, started, listeners, linkUp,
                     recent, scen>>

\* The calls of exec and getBuffer that callers make.
Calls ==
  { <<"playTone", Tone(524, 240)>>, <<"stop", NoData>>,
    <<"bogus", NoData>>, <<"toString", NoData>> }

Next ==
  \/ \E dev \in Devices \cup {NoDevice} : Connect(dev)
  \/ Disconnect
  \/ Reset
  \/ \E c \in Calls : Exec(c[1], c[2])
  \/ \E c \in Calls : GetBuffer(c[1], c[2])
  \/ \E enable \in BOOLEAN : Monitor(enable)
  \/ \E d \in Devices : LinkConnect(d)
  \/ \E d \in Devices : LinkDrop(d)
  \/ \E d \in Devices, data \in Chunks : DeviceReceive(d, data)
  \/ MonitoringTick

Spec == Init /\ [][Next]_vars

\* The receive path alone, over every index type and payload.
NextReceive ==
  \/ \E dev \in Devices : ~prepared /\ Connect(dev)
  \/ \E d \in Devices, data \in SingleFrameChunks : DeviceReceive(d, data)
  \/ Reset
  \/ Disconnect

SpecReceive == Init /\ [][NextReceive]_vars

\* The receive path over chunks of several frames that the attached device
\* delivers, each delivery kept in last.
NextChunks ==
  \/ \E dev \in Devices : ~prepared /\ Connect(dev)
  \/ \E data \in FrameChunks : device # NoDevice /\ ReceiveChunk(device, data)

SpecChunks == Init /\ [][NextChunks]_vars

\* Connecting, disconnecting, the link coming back, and single frames
\* delivered by either device, each delivery kept in last.
NextDisconnect ==
  \/ \E dev \in Devices : Connect(dev)
  \/ Disconnect
  \/ \E d \in Devices : LinkConnect(d)
  \/ \E d \in Devices, f \in ChunkFrames : ReceiveChunk(d, <<f>>)

SpecDisconnect == Init /\ [][NextDisconnect]_vars

\* Line follower frames delivered by the attached device.
NextLine ==
  \/ \E dev \in Devices : ~prepared /\ Connect(dev)
  \/ \E f \in LineFrames : device # NoDevice /\ ReceiveChunk(device, <<f>>)

SpecLine == Init /\ [][NextLine]_vars

\* The float decoder alone.
NextCodec == \E dataBytes \in CodecBytes : ParseFloatBytes(dataBytes)

SpecCodec == Init /\ [][NextCodec]_vars

\* The stream reader alone: a device wrote some frames and delivers their
\* bytes in chunks cut anywhere.
InitFramer == InitEngine /\ wire \in Wires

NextFramer == \E k \in 1..Len(wire.rest) : ReadChunk(k)

SpecFramer == InitFramer /\ [][NextFramer]_vars

(***************************************************************************)
(* Properties                                                              *)
(***************************************************************************)
\* The frame handled last repeats the frame handled right before it: same
\* index type, same payload, large enough to reach the cache comparison.
RepeatedFrame ==
  /\ recent # <<>>
  /\ recent[1].repeat
  /\ Sufficient(recent[1].idx, recent[1].data)

\* C1, as stated: of two sensor frames with the same index type and the same
\* payload handled one after the other (no reset or disconnect in between),
\* the second dispatches nothing and the two together dispatch exactly one
\* event.
C1_ExactlyOneEvent ==
  RepeatedFrame =>
    /\ recent[1].rec.events = 0
    /\ recent[1].prevEvents + recent[1].rec.events = 1

\* C1, amended: the second frame dispatches nothing, and the first dispatches
\* one event exactly when the cache did not already hold its payload for the
\* index type; otherwise the first is suppressed as well.
C1_SecondSuppressed ==
  RepeatedFrame =>
    /\ recent[1].rec.events = 0
    /\ recent[1].prevEvents = (IF recent[1].prevHit THEN 0 ELSE 1)

\* C1 witness: a repeated frame whose first copy dispatched its event.
C1_Witness ==
  /\ RepeatedFrame
  /\ last.op = "receive"
  /\ recent[1].prevEvents = 1
  /\ recent[1].rec.events = 0

\* C8: a ULTRASONIC, LINEFOLLOWER or LIGHTSENSOR frame whose payload has fewer
\* than 4 bytes leaves the cache as it was and dispatches no event.
C8_ShortPayloadDropped ==
  ( /\ recent # <<>>
    /\ recent[1].idx \in {ULTRASONIC, LINEFOLLOWER, LIGHTSENSOR}
    /\ Len(recent[1].data) < 4 )
  => /\ ~recent[1].rec.stored
     /\ recent[1].rec.events = 0

\* C8 witness: a short frame of a sized sensor type was handled while the
\* cache held an entry of that type, and nothing was dispatched.
C8_Witness ==
  /\ last.op = "receive"
  /\ recent # <<>>
  /\ recent[1].idx \in {ULTRASONIC, LINEFOLLOWER, LIGHTSENSOR}
  /\ Len(recent[1].data) \in 1..3
  /\ recent[1].idx \in DOMAIN sensorDataCache_
  /\ Len(sensorDataCache_[recent[1].idx]) >= 4
  /\ trace = <<>>

\* C2: after disconnect() and connect(device) with a link-connected device,
\* the first sensor frame that device delivers, identical to the frame handled
\* last before the disconnect, dispatches exactly one event.
C2_FirstFrameAfterReconnect ==
  (scen.st = "first" /\ scen.same) => scen.events = 1

\* The three commands prepare sends to the device.
PrepareSends(dev) ==
  << EffSend(dev, HandlerBuffer("playTone", Tone(524, 240))),
     EffSend(dev, HandlerBuffer("playTone", Tone(584, 240))),
     EffSend(dev, HandlerBuffer("getVersion", NoData)) >>

\* Every send of the trace lies before monitoring is started and before the
\* engine is marked prepared, and both of these happen.
SendsBeforeMonitoring(tr) ==
  \E m, p \in 1..Len(tr) :
    /\ tr[m][1] = "monitoring.start"
    /\ tr[p][1] = "prepared"
    /\ \A i \in 1..Len(tr) : IsSend(tr[i]) => (i < m /\ i < p)

\* C3: connect(device) on a fresh engine with a link-connected device sends
\* exactly playTone(524, 240), playTone(584, 240), getVersion, in this order,
\* all before monitoring is started and before the engine is marked prepared.
C3_ConnectSendsThree ==
  [][ \A dev \in Devices :
        (device = NoDevice /\ ~prepared /\ linkUp[dev] /\ Connect(dev))
        => /\ SelectSeq(trace', IsSend) = PrepareSends(dev)
           /\ SendsBeforeMonitoring(trace')
           /\ started' /\ prepared' ]_vars

\* C3 witness: connect(d1) has prepared a fresh engine.
C3_Witness ==
  /\ last = Op("connect", <<"d1">>)
  /\ SelectSeq(trace, IsSend) = PrepareSends("d1")
  /\ prepared /\ started /\ device = "d1"

\* C4: disconnect() in the Prepared state leaves the engine not prepared, and
\* a connect(device) with a link-connected device right after it registers the
\* listener, sends the three commands and starts monitoring again.
C4_DisconnectUnprepares ==
  [][ /\ (prepared /\ Disconnect) => ~prepared'
      /\ \A dev \in Devices :
           (last.op = "disconnect" /\ linkUp[dev] /\ Connect(dev))
           => /\ listeners'[dev] = 1
              /\ SelectSeq(trace', IsSend) = PrepareSends(dev)
              /\ started' ]_vars

C6_ExecWhileDisconnected ==
  [][ \A c \in Calls :
        ( /\ c[1] \in {"playTone", "getVersion", "stop"}
          /\ (device = NoDevice \/ last.op = "disconnect")
          /\ Exec(c[1], c[2]) )
        => /\ ret' = "void"
           /\ CountSends(trace') = 0 ]_vars

\* C7: exec and getBuffer with a name that is no command of the table throw,
\* send nothing and leave device, prepared, cache and monitoring unchanged.
C7_UnknownCommandThrows ==
  [][ \A c \in Calls :
        ( /\ c[1] \notin {"playTone", "getVersion", "stop"}
          /\ (Exec(c[1], c[2]) \/ GetBuffer(c[1], c[2])) )
        => /\ ret' = "throw"
           /\ trace' = <<>>
           /\ UNCHANGED <<device, prepared, sensorDataCache_, started, listeners>> ]_vars

\* C7, for the names this.handler[name] resolves to undefined: exec and
\* getBuffer throw, send nothing and change nothing.
C7_UnresolvedNameThrows ==
  [][ \A c \in Calls :
        ( /\ c[1] \in UnresolvedNames
          /\ (Exec(c[1], c[2]) \/ GetBuffer(c[1], c[2])) )
        => /\ ret' = "throw"
           /\ trace' = <<>>
           /\ UNCHANGED <<device, prepared, sensorDataCache_, started, listeners>> ]_vars

C10_ConnectReturn ==
  last.op = "connect" =>
    /\ ret = "true" => (prepared /\ device = last.arg[1])
    /\ (last.arg[1] = NoDevice \/ ~linkUp[last.arg[1]]) => ret = "false"

\* C11: in every reachable state, whatever the interleaving of connect,
\* disconnect, reset, monitor(true), monitor(false) and the link of a device
\* coming up or going down, a running monitoring loop has a device attached
\* whose link reports connected.
C11_MonitoringOnlyWhileConnected ==
  started => (device # NoDevice /\ linkUp[device])

(***************************************************************************)
(* Chunks of several frames.  The step is a delivery kept in last: its     *)
(* device is last'.arg[1] and its frames are last'.arg[2]; the unprimed    *)
(* variables are the engine before the delivery.                           *)
(***************************************************************************)
LoggedReceive(op) == op.op = "receive" /\ Len(op.arg) = 2

KnownIndexTypes == {VERSION, ULTRASONIC, LINEFOLLOWER, LIGHTSENSOR, INNER_BUTTON}
IsKnownFrame(f) == IndexTypeOf(f) \in KnownIndexTypes
IsLongFrame(f) == Len(f) > 4

\* C12: a frame whose index type is none of VERSION, ULTRASONIC, LINEFOLLOWER,
\* LIGHTSENSOR, INNER_BUTTON raises no error, leaves the cache unchanged and
\* dispatches nothing, and the frames after it in the chunk are still handled:
\* the delivery leaves the cache and the effects that the same chunk without
\* its unknown frames leaves; a chunk of unknown frames alone leaves nothing.
C12_UnknownIndexDropped ==
  [][ LoggedReceive(last') =>
        LET d == last'.arg[1]
            data == last'.arg[2]
            known == SelectSeq(data, IsKnownFrame)
            expected == dispatchReceive(This, known, listeners[d])
        IN  /\ ~dispatchReceive(This, data, listeners[d]).thrown
            /\ ret' = "void"
            /\ sensorDataCache_' = expected.cache
            /\ trace' = expected.trace
            /\ known = <<>> => (trace' = <<>> /\ sensorDataCache_' = sensorDataCache_) ]_vars

\* C12 witness: a chunk of an unknown frame and then an ULTRASONIC frame was
\* delivered, and the ULTRASONIC frame dispatched its event.
C12_Witness ==
  /\ LoggedReceive(last)
  /\ last.arg[2] = << MkFrame(UNKNOWN_INDEX, <<0, 0, 72, 67>>),
                      MkFrame(ULTRASONIC, <<0, 0, 72, 67>>) >>
  /\ CountEvents(trace) = 1
  /\ trace[1] = EffCacheWrite(ULTRASONIC, <<0, 0, 72, 67>>)

\* The frames handed to handleData_ one after the other, from frame i.
RECURSIVE DispatchInOrder(_, _, _)
DispatchInOrder(st, frames, i) ==
  IF i > Len(frames) THEN st
  ELSE DispatchInOrder(handleData_(st, frames[i]), frames, i + 1)

\* C17: the frames of a delivered chunk are handled one by one in the order
\* the stream reader returned them; a frame of 4 bytes or less changes no
\* cache entry and dispatches nothing, and every longer frame goes to
\* handleData_: the delivery leaves what handing the frames longer than 4
\* bytes to handleData_, in their order, leaves.
C17_FramesInOrder ==
  [][ LoggedReceive(last') =>
        LET d == last'.arg[1]
            data == last'.arg[2]
            expected == IF listeners[d] = 0 THEN This
                        ELSE DispatchInOrder(This, SelectSeq(data, IsLongFrame), 1)
        IN  /\ listeners[d] <= 1
            /\ sensorDataCache_' = expected.cache
            /\ trace' = expected.trace ]_vars

\* C17 witness: a chunk of a LIGHTSENSOR frame and then an ULTRASONIC frame
\* was delivered to the listener, and the cache writes and events came in
\* that order.
C17_Witness ==
  /\ LoggedReceive(last)
  /\ last.arg[2] = << MkFrame(LIGHTSENSOR, <<0, 0, 72, 67>>),
                      MkFrame(ULTRASONIC, <<0, 0, 72, 67>>) >>
  /\ Len(trace) = 4
  /\ trace[1] = EffCacheWrite(LIGHTSENSOR, <<0, 0, 72, 67>>)
  /\ IsEvent(trace[2])
  /\ trace[3] = EffCacheWrite(ULTRASONIC, <<0, 0, 72, 67>>)
  /\ IsEvent(trace[4])

\* The index types of the frames of a chunk.
IndexTypesOf(data) == { IndexTypeOf(data[i]) : i \in 1..Len(data) }

\* C18: the cache is kept per index type.  A delivery never alters the entry
\* of an index type none of its frames carries; and a single sensor frame
\* handed to the listener dispatches its event exactly when the cache does not
\* hold its payload under its own index type, whatever the cache holds under
\* the other index types.
C18_CachePerIndexType ==
  [][ LoggedReceive(last') =>
        LET d == last'.arg[1]
            data == last'.arg[2]
        IN  /\ \A k \in DOMAIN sensorDataCache_ \ IndexTypesOf(data) :
                 /\ k \in DOMAIN sensorDataCache_'
                 /\ sensorDataCache_'[k] = sensorDataCache_[k]
            /\ DOMAIN sensorDataCache_' \subseteq DOMAIN sensorDataCache_ \cup IndexTypesOf(data)
            /\ ( /\ listeners[d] = 1
                 /\ Len(data) = 1
                 /\ IsLongFrame(data[1])
                 /\ Sufficient(IndexTypeOf(data[1]), PayloadOf(data[1])) )
               => LET idx == IndexTypeOf(data[1])
                      p == PayloadOf(data[1])
                      held == idx \in DOMAIN sensorDataCache_ /\ sensorDataCache_[idx] = p
                  IN  /\ CountEvents(trace') = (IF held THEN 0 ELSE 1)
                      /\ idx \in DOMAIN sensorDataCache_'
                      /\ sensorDataCache_'[idx] = p ]_vars

\* C18 witness: a LIGHTSENSOR frame dispatched its event while the cache held
\* the very same payload under ULTRASONIC.
C18_Witness ==
  /\ LoggedReceive(last)
  /\ last.arg[2] = << MkFrame(LIGHTSENSOR, <<0, 0, 72, 67>>) >>
  /\ CountEvents(trace) = 1
  /\ ULTRASONIC \in DOMAIN sensorDataCache_
  /\ sensorDataCache_[ULTRASONIC] = <<0, 0, 72, 67>>
  /\ sensorDataCache_[LIGHTSENSOR] = <<0, 0, 72, 67>>

\* What the cache holds for an index type right before effect i of the trace
\* tr of one operation that started with the cache before: the payload of the
\* latest earlier write to that index type, else the entry of before; <<>>
\* with held FALSE when there is none.
EntryBefore(before, tr, i, idx) ==
  LET earlier == { j \in 1..(i - 1) : IsCacheWrite(tr[j]) /\ tr[j][2] = idx }
  IN  IF earlier # {}
      THEN [held |-> TRUE, data |-> tr[CHOOSE j \in earlier : \A k \in earlier : k <= j][3]]
      ELSE IF idx \in DOMAIN before THEN [held |-> TRUE, data |-> before[idx]]
      ELSE [held |-> FALSE, data |-> <<>>]

\* C16: over the frames of every delivery, a cache entry is written only with
\* a payload that differs from the entry held right before (or when none is
\* held), each write is followed at once by one event of the same index type,
\* no event comes without its write right before it, so writes and events
\* are equal in number; a delivery without a write leaves the cache as it was.
C16_WriteThenOneEvent ==
  [][ last'.op = "receive" =>
        /\ \A i \in 1..Len(trace') :
             /\ IsCacheWrite(trace'[i]) =>
                  /\ LET e == EntryBefore(sensorDataCache_, trace', i, trace'[i][2])
                     IN  ~e.held \/ e.data # trace'[i][3]
                  /\ i < Len(trace')
                  /\ IsEvent(trace'[i + 1])
                  /\ trace'[i + 1][2] = trace'[i][2]
                  /\ trace'[i][2] \in DOMAIN sensorDataCache_'
             /\ IsEvent(trace'[i]) =>
                  /\ i > 1
                  /\ IsCacheWrite(trace'[i - 1])
             /\ IsCacheWrite(trace'[i]) \/ IsEvent(trace'[i])
        /\ Cardinality({ i \in 1..Len(trace') : IsCacheWrite(trace'[i]) }) = CountEvents(trace')
        /\ trace' = <<>> => sensorDataCache_' = sensorDataCache_ ]_vars

\* C16 witness: one delivery of two frames of one index type with different
\* payloads wrote the cache twice and dispatched two events, write, event,
\* write, event.
C16_Witness ==
  /\ last.op = "receive"
  /\ Len(trace) = 4
  /\ IsCacheWrite(trace[1]) /\ IsEvent(trace[2])
  /\ IsCacheWrite(trace[3]) /\ IsEvent(trace[4])
  /\ trace[1][2] = trace[3][2]
  /\ trace[1][3] # trace[3][3]
  /\ sensorDataCache_[trace[3][2]] = trace[3][3]

\* C19: connect(device) while the engine is prepared sends nothing, registers
\* no listener, starts no monitoring and leaves the device reference, the
\* cache and the prepared flag as they were; so no device ever carries more
\* than one receive listener of the engine, and a received frame dispatches at
\* most one event.
C19_ConnectWhilePrepared ==
  [][ /\ \A dev \in Devices \cup {NoDevice} :
           (prepared /\ Connect(dev))
           => /\ trace' = <<>>
              /\ UNCHANGED <<device, prepared, sensorDataCache_, started, listeners>>
      /\ \A d \in Devices : listeners'[d] <= 1
      /\ (last'.op = "receive" /\ recent' # <<>>) => recent'[1].rec.events <= 1 ]_vars

\* C19 witness: connect(d1) returned on an engine that was already prepared
\* with the link-connected d1: one listener, monitoring running, nothing done.
C19_Witness ==
  /\ last = Op("connect", <<"d1">>)
  /\ linkUp["d1"]
  /\ prepared /\ started
  /\ device = "d1"
  /\ listeners["d1"] = 1
  /\ trace = <<>>
  /\ ret = "true"

\* Does the trace hold the registration of a receive listener.
Listens(tr) == \E i \in 1..Len(tr) : tr[i][1] = "listen"

\* C20: disconnect() leaves no receive listener of the engine on any device;
\* a chunk delivered by a device that carries no listener dispatches nothing
\* and changes no cache entry; and a listener is registered again by
\* prepare() only (reached through connect).
C20_DeafAfterDisconnect ==
  [][ /\ Disconnect => \A d \in Devices : listeners'[d] = 0
      /\ (LoggedReceive(last') /\ listeners[last'.arg[1]] = 0)
         => /\ trace' = <<>>
            /\ sensorDataCache_' = sensorDataCache_
      /\ (\E d \in Devices : listeners'[d] > listeners[d])
         => /\ last'.op = "connect"
            /\ Listens(trace')
            /\ ~prepared /\ prepared' ]_vars

\* C20 witness: after disconnect() the link of the device that was attached
\* came back and the device delivered an ULTRASONIC frame; nothing was
\* dispatched and the cache stayed empty.
C20_Witness ==
  /\ LoggedReceive(last)
  /\ prepared
  /\ last.arg[1] = device
  /\ listeners[device] = 0
  /\ last.arg[2] = << MkFrame(ULTRASONIC, <<0, 0, 72, 67>>) >>
  /\ trace = <<>>
  /\ DOMAIN sensorDataCache_ = {}

\* C13: a LINEFOLLOWER frame with a payload of at least 4 bytes that the cache
\* does not hold dispatches exactly one LinefollowerSensorValue whose left is
\* (payload byte 3 >= 64), whose right is (payload byte 2 >= 64) and whose raw
\* is the payload; bytes 70 and 50 give left false and right true.  Payload
\* byte i of the claim is p[i + 1] here.
C13_LinefollowerDecode ==
  [][ ( /\ LoggedReceive(last')
        /\ listeners[last'.arg[1]] = 1
        /\ Len(last'.arg[2]) = 1
        /\ IndexTypeOf(last'.arg[2][1]) = LINEFOLLOWER
        /\ Len(PayloadOf(last'.arg[2][1])) >= 4
        /\ ~( /\ LINEFOLLOWER \in DOMAIN sensorDataCache_
              /\ sensorDataCache_[LINEFOLLOWER] = PayloadOf(last'.arg[2][1]) ) )
      => LET p == PayloadOf(last'.arg[2][1])
             events == SelectSeq(trace', IsEvent)
         IN  /\ Len(events) = 1
             /\ events[1] = << "event", LINEFOLLOWER, "LinefollowerSensorValue",
                               << p[4] >= 64, p[3] >= 64, p >> >>
             /\ (p[3] = 70 /\ p[4] = 50)
                => (events[1][4][1] = FALSE /\ events[1][4][2] = TRUE) ]_vars

\* C13 witness: the payload with byte 2 = 70 and byte 3 = 50 was dispatched as
\* left false, right true.
C13_Witness ==
  /\ LoggedReceive(last)
  /\ last.arg[2] = << MkFrame(LINEFOLLOWER, <<0, 0, 70, 50>>) >>
  /\ Len(trace) = 2
  /\ trace[2] = << "event", LINEFOLLOWER, "LinefollowerSensorValue",
                   << FALSE, TRUE, <<0, 0, 70, 50>> >> >>

(***************************************************************************)
(* The float decoder.                                                      *)
(***************************************************************************)
\* The bit fields of the pattern the four payload bytes spell, payload byte 3
\* the most significant: bit 31, bits 30..23, bits 22..0.
SignBit(b) == b[4] \div 128
ExponentBits(b) == (b[4] % 128) * 2 + b[3] \div 128
FractionBits(b) == (b[3] % 128) * 65536 + b[2] * 256 + b[1]

\* Is hundredths / 100 the number sign * mantissa * 2^(exponent - 150) at two
\* decimals: hundredths is a nearest integer to 100 times the number.  Stated
\* for the exponents of CodecBytes: below 118 the number is less than 0.005.
IsRounded(hundredths, sign, mantissa, exponent) ==
  IF exponent < 118 THEN hundredths = 0
  ELSE LET unit == Pow2(150 - exponent)
           magnitude == IF hundredths < 0 THEN 0 - hundredths ELSE hundredths
           diff == magnitude * unit - mantissa * 100
       IN  /\ exponent <= 135
           /\ hundredths = sign * magnitude
           /\ 2 * diff <= unit
           /\ 2 * diff >= 0 - unit

\* C14: the decoder gives 200.0 for the pattern 0x43480000 and 0.0 for
\* 0x00000000; the pattern is the signed 32 bit integer of the four payload
\* bytes, byte 3 the most significant and byte 0 the least, and it is decoded
\* as sign (bit 31) * mantissa * 2^(exponent - 150) with mantissa = bits 22..0
\* with bit 23 set when the exponent is not 0 and bits 22..0 shifted left by
\* one when it is 0, at two decimals.
C14_FloatDecode ==
  last.op = "parseFloatBytes_" =>
    LET b == last.arg[1]
        r == trace[1][2]
    IN  /\ b = <<0, 0, 72, 67>>
           => /\ r.intValue = 1128792064
              /\ r.result = [hundredths |-> 20000, shift |-> 0]
        /\ b = <<0, 0, 0, 0>>
           => /\ r.intValue = 0
              /\ r.result = [hundredths |-> 0, shift |-> 0]
        /\ r.intValue = (IF SignBit(b) = 1 THEN (0 - 2147483647) - 1 ELSE 0)
                          + ExponentBits(b) * 8388608 + FractionBits(b)
        /\ r.float.sign = (IF SignBit(b) = 1 THEN -1 ELSE 1)
        /\ r.float.exponent = ExponentBits(b)
        /\ r.float.mantissa = (IF ExponentBits(b) = 0 THEN FractionBits(b) * 2
                               ELSE FractionBits(b) + 8388608)
        /\ r.result.shift = 0
        /\ IsRounded(r.result.hundredths, r.float.sign, r.float.mantissa, r.float.exponent)

\* C14 witness: the payload 00 00 48 43, the pattern 0x43480000, was decoded
\* to 200.0.
C14_Witness ==
  /\ last = Op("parseFloatBytes_", << <<0, 0, 72, 67>> >>)
  /\ trace[1][2].intValue = 1128792064
  /\ trace[1][2].result.hundredths = 20000

(***************************************************************************)
(* The stream reader.                                                      *)
(***************************************************************************)
\* How many of the frames written have been delivered to their last byte
\* once `delivered` bytes are through.
RECURSIVE WholeFrames(_, _)
WholeFrames(frames, delivered) ==
  IF frames = <<>> \/ Len(Head(frames)) > delivered THEN 0
  ELSE 1 + WholeFrames(Tail(frames), delivered - Len(Head(frames)))

====
